---- MODULE Spec2Model ----
(***************************************************************************)
(* State-machine model of salt.key_manager: the BaseKeyManager constructor *)
(* with its private-key encryption wrapper (salt/key_manager/__init__.py)  *)
(* and the LocalFileKeyManager backend (salt/key_manager/local_files.py),  *)
(* together with the part of the operating system the backend acts on: the *)
(* directory tree under pki_dir, file permission bits, the process umask   *)
(* and the effective user.                                                 *)
(*                                                                         *)
(* Byte strings are sequences of byte values; None is the one-element      *)
(* sequence <<-1>>, which is no byte string.  A path is the sequence of    *)
(* its components; key_type and key_name are given as the sequence of      *)
(* components that os.path.join sees in them.                              *)
(***************************************************************************)
EXTENDS Integers, Sequences, FiniteSets, TLC

VARIABLES
    opts,     \* the configuration the backend is constructed with
    self,     \* the backend instance: state, crypt, base_dir
    files,    \* path -> [exists, content, mode] for every artifact path
    dirs,     \* path -> permission bits of the directory, or NoDir
    umask,    \* the file-creation mask of the process
    euid0,    \* TRUE when the process runs as the superuser
    last,     \* the call that ran last: arguments, pre-state facts, outcome
    callers   \* concurrent callers of save: position in save and its locals

vars == <<opts, self, files, dirs, umask, euid0, last, callers>>

(***************************************************************************)
(* Bounds of the model and the values the calls are drawn from.            *)
(***************************************************************************)
NumMaterial == 1

None == <<-1>>
NoDir == 0 - 1
NoSecret == 0 - 1

\* The keys the calls are made on, as <<key_type, key_name>>.  The last two
\* have a path separator in key_type and in key_name respectively.
Keys ==
    {<< <<"master">>, <<"node1">> >>,
     << <<"minion", "sub">>, <<"node1">> >>,
     << <<"minion">>, <<"sub", "node1">> >>}
KeyTypes == {k[1] : k \in Keys}
KeyNames == {k[2] : k \in Keys}
\* byte strings the encryption wrapper is applied to: the empty one and
\* strings over bytes that include the ends of the range and the signature
\* byte of Secret
SampleBytes == {0, 22, 75, 255}
ByteStrings ==
    {<<>>} \cup {<<a>> : a \in SampleBytes}
           \cup {<<a, b>> : a \in SampleBytes, b \in SampleBytes}
PubKeys == {<<80, i>> : i \in 1..NumMaterial}
PrivKeys == {None, <<>>} \cup {<<75, i>> : i \in 1..NumMaterial}
\* the step of save that fails for a reason outside the program (disk full,
\* quota): the write of an artifact after it was opened, or the opening of
\* the private artifact
Faults == {"none", "pub_write", "priv_write", "priv_open"}
InitUmasks == {18}
PkiDir == <<"pki">>
Secret == 3
\* keystore_secret is only ever read when encryption is enabled
OptsSet ==
    {o \in [encrypt_private_keys : {"unset", "false", "true"},
            keystore_secret : {NoSecret, Secret},
            pki_dir : {<<>>, PkiDir}] :
        o.keystore_secret = Secret => o.encrypt_private_keys = "true"}

(***************************************************************************)
(* Permission bits.                                                        *)
(***************************************************************************)
RECURSIVE BitAnd(_, _)
BitAnd(a, b) ==
    IF a = 0 \/ b = 0 THEN 0
    ELSE (a % 2) * (b % 2) + 2 * BitAnd(a \div 2, b \div 2)

AllBits == 511
FileCreateMode == 438
DirCreateMode == 511
SaveUmask == 191
\* mutant: the private artifact is left writable by its owner
PrivModeOwnerWrite == 256 + 128
PrivMode == 256

\* mode & ~mask, tabulated for the creation modes and the masks that occur
Umasks == InitUmasks \cup {SaveUmask}
MaskedMode ==
    [mode \in {FileCreateMode, DirCreateMode} |->
        [mask \in Umasks |-> BitAnd(mode, AllBits - BitAnd(mask, AllBits))]]
ApplyUmask(mode, mask) == MaskedMode[mode][mask]
OwnerRead(mode) == (mode \div 256) % 2 = 1
OwnerWrite(mode) == (mode \div 128) % 2 = 1
OwnerExec(mode) == (mode \div 64) % 2 = 1

(***************************************************************************)
(* Python truthiness of an optional byte string: None and b"" are false.   *)
(***************************************************************************)
Truthy(b) == b # None /\ b # <<>>

(***************************************************************************)
(* The cipher adapter (salt.crypt.Crypticle) keyed by keystore_secret:     *)
(* encrypt shifts every byte by the secret and appends a signature byte,   *)
(* decrypt verifies the signature and shifts back.                         *)
(***************************************************************************)
Signature(secret) == (secret * 7 + 1) % 256

CrypticleEncrypt(secret, data) ==
    [i \in 1..Len(data) |-> (data[i] + secret) % 256] \o <<Signature(secret)>>

CrypticleDecrypt(secret, data) ==
    IF data # None /\ Len(data) >= 1 /\ data[Len(data)] = Signature(secret)
    THEN [err |-> "none",
          data |-> [i \in 1..(Len(data) - 1) |-> (data[i] + 256 - secret) % 256]]
    ELSE [err |-> "AuthenticationError", data |-> None]

(***************************************************************************)
(* BaseKeyManager._encrypt_priv_key / _decrypt_priv_key.  crypt is the     *)
(* secret of the adapter held in self.crypt, or NoSecret for None.         *)
(***************************************************************************)
\* mutant: the material is stored as given also when an adapter is set
EncryptSkipped(crypt, priv_key) == priv_key

_encrypt_priv_key(crypt, priv_key) ==
    IF crypt # NoSecret THEN CrypticleEncrypt(crypt, priv_key) ELSE priv_key

\* mutant: the stored bytes are handed back without decrypting
DecryptSkipped(crypt, crypted_key) == [err |-> "none", data |-> crypted_key]

_decrypt_priv_key(crypt, crypted_key) ==
    IF crypt # NoSecret THEN CrypticleDecrypt(crypt, crypted_key)
    ELSE [err |-> "none", data |-> crypted_key]

(***************************************************************************)
(* Paths.  os.path.join concatenates the components.                       *)
(***************************************************************************)
Front(s) == SubSeq(s, 1, Len(s) - 1)
Suffix(private) == IF private THEN "pem" ELSE "pub"
FileName(key_name, private) ==
    Front(key_name) \o <<key_name[Len(key_name)] \o "." \o Suffix(private)>>
TypeDir(base_dir, key_type) == base_dir \o key_type
KeyPath(base_dir, key_type, key_name, private) ==
    TypeDir(base_dir, key_type) \o FileName(key_name, private)

Prefixes(p) == {SubSeq(p, 1, i) : i \in 1..Len(p)}
FilePaths == {KeyPath(PkiDir, k[1], k[2], p) : k \in Keys, p \in BOOLEAN}
DirPaths == UNION {Prefixes(Front(f)) : f \in FilePaths}

NoFile == [exists |-> FALSE, content |-> <<>>, mode |-> 0]

(***************************************************************************)
(* The operating system calls the backend makes.  Each takes the state it  *)
(* acts on and returns the new state with the error raised, if any.        *)
(***************************************************************************)
IsDir(d, path) == path \in DOMAIN d /\ d[path] # NoDir
os_path_isfile(f, path) == path \in DOMAIN f /\ f[path].exists
os_path_exists(f, d, path) == IsDir(d, path) \/ os_path_isfile(f, path)

\* May the process create or delete an entry of directory `dir`?
MayModifyDir(d, dir, root) ==
    IsDir(d, dir) /\ (root \/ (OwnerWrite(d[dir]) /\ OwnerExec(d[dir])))

\* os.mkdir(path) under the mask
os_mkdir(f, d, path, mask, root) ==
    IF os_path_exists(f, d, path) \/ path \notin DOMAIN d
        THEN [dirs |-> d, err |-> "OSError"]
    ELSE IF Len(path) > 1 /\ ~MayModifyDir(d, Front(path), root)
        THEN [dirs |-> d, err |-> "OSError"]
    ELSE [dirs |-> [d EXCEPT ![path] = ApplyUmask(DirCreateMode, mask)],
          err |-> "none"]

\* os.makedirs(name): the missing ancestors first, then the leaf
RECURSIVE os_makedirs(_, _, _, _, _)
os_makedirs(f, d, name, mask, root) ==
    LET head == Front(name)
        up == IF Len(name) > 1 /\ ~os_path_exists(f, d, head)
              THEN os_makedirs(f, d, head, mask, root)
              ELSE [dirs |-> d, err |-> "none"]
    IN  IF up.err # "none" THEN up
        ELSE os_mkdir(f, up.dirs, name, mask, root)

\* fopen(path, 'wb+') followed by write(data); `fail` makes the write fail
\* after the file was opened (created or truncated).
WriteFile(f, d, path, data, mask, root, fail) ==
    IF ~IsDir(d, Front(path)) \/ IsDir(d, path)
        THEN [files |-> f, err |-> "IOError"]
    ELSE IF os_path_isfile(f, path) /\ ~(root \/ OwnerWrite(f[path].mode))
        THEN [files |-> f, err |-> "IOError"]
    ELSE IF ~os_path_isfile(f, path) /\ ~MayModifyDir(d, Front(path), root)
        THEN [files |-> f, err |-> "IOError"]
    ELSE LET m == IF os_path_isfile(f, path) THEN f[path].mode
                  ELSE ApplyUmask(FileCreateMode, mask)
         IN  IF fail
             THEN [files |-> [f EXCEPT ![path] =
                                [exists |-> TRUE, content |-> <<>>, mode |-> m]],
                   err |-> "IOError"]
             ELSE [files |-> [f EXCEPT ![path] =
                                [exists |-> TRUE, content |-> data, mode |-> m]],
                   err |-> "none"]

\* fopen(path).read()
ReadFile(f, path, root) ==
    IF os_path_isfile(f, path) /\ (root \/ OwnerRead(f[path].mode))
    THEN [data |-> f[path].content, err |-> "none"]
    ELSE [data |-> None, err |-> "IOError"]

\* os.chmod(path, mode)
os_chmod(f, path, mode) ==
    IF os_path_isfile(f, path)
    THEN [files |-> [f EXCEPT ![path].mode = mode], err |-> "none"]
    ELSE [files |-> f, err |-> "OSError"]

\* os.remove(path)
os_remove(f, d, path, root) ==
    IF os_path_isfile(f, path) /\ MayModifyDir(d, Front(path), root)
    THEN [files |-> [f EXCEPT ![path] = NoFile], err |-> "none"]
    ELSE [files |-> f, err |-> "OSError"]

(***************************************************************************)
(* LocalFileKeyManager._get_key_path                                       *)
(***************************************************************************)
_get_key_path(f, d, base_dir, key_type, key_name, private, mask, root) ==
    LET type_dir == TypeDir(base_dir, key_type)
        made == IF ~os_path_exists(f, d, type_dir)
                THEN os_makedirs(f, d, type_dir, mask, root)
                ELSE [dirs |-> d, err |-> "none"]
    IN  [path |-> KeyPath(base_dir, key_type, key_name, private),
         dirs |-> made.dirs,
         err |-> made.err]

(***************************************************************************)
(* BaseKeyManager.__init__ with LocalFileKeyManager.initialize.            *)
(***************************************************************************)
\* mutant: the flag is enabled as soon as it is present, whatever its value
EncryptionKeyPresent(o) == o.encrypt_private_keys # "unset"

\* line 26
EncryptionEnabled(o) == o.encrypt_private_keys = "true"

\* LocalFileKeyManager.initialize: base_dir, or the error raised
initialize(o) ==
    IF o.pki_dir = <<>>
    THEN [base_dir |-> <<>>, err |-> "SaltMasterError"]
    ELSE [base_dir |-> o.pki_dir, err |-> "none"]

\* the constructor: the instance produced, the error raised and whether the
\* initialize() hook was reached
__init__(o) ==
    IF EncryptionEnabled(o) /\ o.keystore_secret = NoSecret
    THEN [self |-> [state |-> "failed", crypt |-> NoSecret, base_dir |-> <<>>],
          result |-> "KeyManagerConfigError",
          initialize_called |-> FALSE]
    ELSE LET crypt == IF EncryptionEnabled(o) THEN o.keystore_secret
                      ELSE NoSecret
             ini == initialize(o)
         IN  IF ini.err # "none"
             THEN [self |-> [state |-> "failed", crypt |-> NoSecret,
                             base_dir |-> <<>>],
                   result |-> ini.err,
                   initialize_called |-> TRUE]
             ELSE [self |-> [state |-> "ready", crypt |-> crypt,
                             base_dir |-> ini.base_dir],
                   result |-> "ok",
                   initialize_called |-> TRUE]

(***************************************************************************)
(* LocalFileKeyManager.save                                                *)
(***************************************************************************)
\* mutant: the wrapper is not applied
PrivKeyToStorePlain(crypt, priv_key) ==
    IF Truthy(priv_key) THEN priv_key ELSE None

\* lines 40-43
PrivKeyToStore(crypt, priv_key) ==
    IF Truthy(priv_key) THEN _encrypt_priv_key(crypt, priv_key) ELSE None

\* mutant: only the private artifact is tested
SaveKeyExistsPrivOnly(f, pub_key_path, priv_key_path, priv_key) ==
    Truthy(priv_key) /\ os_path_isfile(f, priv_key_path)

\* mutant: no existence test at all
SaveKeyExistsNever(f, pub_key_path, priv_key_path, priv_key) == FALSE

\* mutant: the test of lines 49-50 is missing
SaveKeyExistsPubOnly(f, pub_key_path, priv_key_path, priv_key) ==
    os_path_isfile(f, pub_key_path)

\* lines 47-50: the existence checks
SaveKeyExists(f, pub_key_path, priv_key_path, priv_key) ==
    \/ os_path_isfile(f, pub_key_path)
    \/ (Truthy(priv_key) /\ os_path_isfile(f, priv_key_path))

\* line 51 onwards leaves the mask it set in force
UmaskAfterSave(cumask) == SaveUmask

\* mutant: a failed write of the private artifact undoes the public one
SaveWritesRollback(f, d, pub_key_path, priv_key_path, pub_key, priv_key_to_store, root, fault) ==
    LET w1 == WriteFile(f, d, pub_key_path, pub_key, SaveUmask, root,
                        fault = "pub_write")
        w2 == IF ~Truthy(priv_key_to_store)
                  THEN [files |-> w1.files, err |-> "none"]
              ELSE IF fault = "priv_open"
                  THEN [files |-> f, err |-> "IOError"]
              ELSE WriteFile(w1.files, d, priv_key_path, priv_key_to_store,
                             SaveUmask, root, fault = "priv_write")
        c  == os_chmod(w2.files, priv_key_path, PrivMode)
    IN  IF w1.err # "none" THEN [files |-> w1.files, result |-> w1.err]
        ELSE IF w2.err # "none" THEN [files |-> f, result |-> w2.err]
        ELSE IF c.err # "none" THEN [files |-> c.files, result |-> c.err]
        ELSE [files |-> c.files, result |-> "ok"]

\* lines 51-57: the writes, under the narrowed mask
SaveWrites(f, d, pub_key_path, priv_key_path, pub_key, priv_key_to_store, root, fault) ==
    LET w1 == WriteFile(f, d, pub_key_path, pub_key, SaveUmask, root,
                        fault = "pub_write")
        w2 == IF ~Truthy(priv_key_to_store)
                  THEN [files |-> w1.files, err |-> "none"]
              ELSE IF fault = "priv_open"
                  THEN [files |-> w1.files, err |-> "IOError"]
              ELSE WriteFile(w1.files, d, priv_key_path, priv_key_to_store,
                             SaveUmask, root, fault = "priv_write")
        c  == os_chmod(w2.files, priv_key_path, PrivMode)
    IN  IF w1.err # "none" THEN [files |-> w1.files, result |-> w1.err]
        ELSE IF w2.err # "none" THEN [files |-> w2.files, result |-> w2.err]
        ELSE IF c.err # "none" THEN [files |-> c.files, result |-> c.err]
        ELSE [files |-> c.files, result |-> "ok"]

\* Does the write that `fault` names take place in this call?
FaultFires(f, d, pub_key_path, priv_key_path, priv_key_to_store, root, fault) ==
    LET w1 == WriteFile(f, d, pub_key_path, <<>>, SaveUmask, root, FALSE)
        w2 == WriteFile(w1.files, d, priv_key_path, <<>>, SaveUmask, root, FALSE)
    IN  \/ fault = "pub_write" /\ w1.err = "none"
        \/ /\ fault \in {"priv_write", "priv_open"} /\ w1.err = "none"
           /\ Truthy(priv_key_to_store) /\ w2.err = "none"

save(s, f, d, mask, root, key_type, key_name, pub_key, priv_key, fault) ==
    LET priv_key_to_store == PrivKeyToStore(s.crypt, priv_key)
        p1 == _get_key_path(f, d, s.base_dir, key_type, key_name, FALSE,
                            mask, root)
        p2 == _get_key_path(f, p1.dirs, s.base_dir, key_type, key_name, TRUE,
                            mask, root)
    IN  IF p1.err # "none"
            THEN [files |-> f, dirs |-> p1.dirs, umask |-> mask,
                  result |-> p1.err, faulted |-> FALSE]
        ELSE IF p2.err # "none"
            THEN [files |-> f, dirs |-> p2.dirs, umask |-> mask,
                  result |-> p2.err, faulted |-> FALSE]
        ELSE IF SaveKeyExists(f, p1.path, p2.path, priv_key)
            THEN [files |-> f, dirs |-> p2.dirs, umask |-> mask,
                  result |-> "KeyExists", faulted |-> FALSE]
        ELSE LET w == SaveWrites(f, p2.dirs, p1.path, p2.path, pub_key,
                                 priv_key_to_store, root, fault)
             IN  [files |-> w.files, dirs |-> p2.dirs,
                  umask |-> UmaskAfterSave(mask), result |-> w.result,
                  faulted |-> FaultFires(f, p2.dirs, p1.path, p2.path,
                                         priv_key_to_store, root, fault)]

(***************************************************************************)
(* LocalFileKeyManager.get                                                 *)
(***************************************************************************)
\* lines 67-71: is there a key to return?
GetKeyFound(f, pub_key_path, priv_key_path) == os_path_isfile(f, pub_key_path)

\* line 75: what is done with the bytes read from the private artifact
GetPrivate(crypt, stored, decrypt_priv) == _decrypt_priv_key(crypt, stored)

get(s, f, d, mask, root, key_type, key_name, decrypt_priv) ==
    LET p1 == _get_key_path(f, d, s.base_dir, key_type, key_name, FALSE,
                            mask, root)
        p2 == _get_key_path(f, p1.dirs, s.base_dir, key_type, key_name, TRUE,
                            mask, root)
        fail(ds, e) == [dirs |-> ds, result |-> e,
                        ret_pub |-> None, ret_priv |-> None]
    IN  IF p1.err # "none" THEN fail(p1.dirs, p1.err)
        ELSE IF p2.err # "none" THEN fail(p2.dirs, p2.err)
        ELSE IF ~GetKeyFound(f, p1.path, p2.path)
            THEN fail(p2.dirs, "KeyNotFound")
        ELSE LET r1 == ReadFile(f, p1.path, root)
             IN  IF r1.err # "none" THEN fail(p2.dirs, r1.err)
                 ELSE IF ~os_path_isfile(f, p2.path)
                     THEN [dirs |-> p2.dirs, result |-> "ok",
                           ret_pub |-> r1.data, ret_priv |-> None]
                 ELSE LET r2 == ReadFile(f, p2.path, root)
                          dec == GetPrivate(s.crypt, r2.data, decrypt_priv)
                      IN  IF r2.err # "none" THEN fail(p2.dirs, r2.err)
                          ELSE IF dec.err # "none" THEN fail(p2.dirs, dec.err)
                          ELSE [dirs |-> p2.dirs, result |-> "ok",
                                ret_pub |-> r1.data, ret_priv |-> dec.data]

(***************************************************************************)
(* LocalFileKeyManager.remove                                              *)
(***************************************************************************)
\* lines 89-90 and 92-93: delete the artifact when it is there
RemoveIfFile(f, d, path, root) ==
    IF os_path_isfile(f, path) THEN os_remove(f, d, path, root)
    ELSE [files |-> f, err |-> "none"]

remove(s, f, d, mask, root, key_type, key_name) ==
    LET p1 == _get_key_path(f, d, s.base_dir, key_type, key_name, FALSE,
                            mask, root)
        p2 == _get_key_path(f, p1.dirs, s.base_dir, key_type, key_name, TRUE,
                            mask, root)
        r1 == RemoveIfFile(f, p2.dirs, p1.path, root)
        r2 == RemoveIfFile(r1.files, p2.dirs, p2.path, root)
    IN  IF p1.err # "none"
            THEN [files |-> f, dirs |-> p1.dirs, result |-> p1.err]
        ELSE IF p2.err # "none"
            THEN [files |-> f, dirs |-> p2.dirs, result |-> p2.err]
        ELSE IF r1.err # "none"
            THEN [files |-> r1.files, dirs |-> p2.dirs, result |-> r1.err]
        ELSE IF r2.err # "none"
            THEN [files |-> r2.files, dirs |-> p2.dirs, result |-> r2.err]
        ELSE [files |-> r2.files, dirs |-> p2.dirs, result |-> "ok"]

(***************************************************************************)
(* The record of a call: its arguments, facts of the state it started in   *)
(* and its outcome.                                                        *)
(***************************************************************************)
NoCall ==
    [op |-> "none", key_type |-> <<>>, key_name |-> <<>>,
     pub_key |-> None, priv_key |-> None, decrypt_priv |-> TRUE,
     fault |-> "none",
     had_pub |-> FALSE, had_priv |-> FALSE, may_write |-> FALSE,
     umask_before |-> 0, follows |-> "none",
     initialize_called |-> FALSE,
     result |-> "none", ret_pub |-> None, ret_priv |-> None]

\* Did the private artifact fail to be opened or written in this call?
PrivFault(l) == l.fault \in {"priv_write", "priv_open"}

\* The call on (key_type, key_name) with the facts of the state it starts
\* in: which artifacts exist, whether the process may create files in the
\* directory of the artifacts, the mask in force, and whether the call
\* before it was a save or remove of the same key that returned normally
\* ("save", "remove") or a save of the same key whose private artifact could
\* not be opened or written ("priv_fault").
Call(op, key_type, key_name) ==
    LET pub == KeyPath(self.base_dir, key_type, key_name, FALSE)
        priv == KeyPath(self.base_dir, key_type, key_name, TRUE)
        p == _get_key_path(files, dirs, self.base_dir, key_type, key_name,
                           FALSE, umask, euid0)
    IN  [NoCall EXCEPT
            !.op = op, !.key_type = key_type, !.key_name = key_name,
            !.had_pub = os_path_isfile(files, pub),
            !.had_priv = os_path_isfile(files, priv),
            !.may_write = p.err = "none" /\
                MayModifyDir(p.dirs, Front(pub), euid0),
            !.umask_before = umask,
            !.follows = IF last.key_type # key_type \/ last.key_name # key_name
                            THEN "none"
                        ELSE IF last.op \in {"save", "remove"} /\ last.result = "ok"
                            THEN last.op
                        ELSE IF last.op = "save" /\ PrivFault(last)
                            THEN "priv_fault"
                        ELSE "none"]

(***************************************************************************)
(* A caller executing save concurrently with another one (threads of the   *)
(* process, which share the umask): where it is in save, its arguments and *)
(* its local variables.  `passed` records that the caller got past the     *)
(* existence checks, `raced` that when it wrote the public artifact the    *)
(* other caller had already got past them.                                 *)
(***************************************************************************)
Callers == {1, 2}
Other(c) == 3 - c
CallerPub(c) == <<80, c>>
CallerPrivs(c) == {None, <<75, c>>}

IdleCaller ==
    [pc |-> "idle", key_type |-> <<>>, key_name |-> <<>>,
     pub_key |-> None, priv_key |-> None, priv_key_to_store |-> None,
     pub_key_path |-> <<>>, priv_key_path |-> <<>>,
     passed |-> FALSE, raced |-> FALSE, result |-> "none"]

(***************************************************************************)
(* Initial state: the configuration, the user and the mask are inputs.     *)
(* The store under pki_dir is empty or holds what an interrupted or        *)
(* concurrent earlier use left behind: a private artifact without its      *)
(* public one (the state lines 49-50 of save test for).  Such a file has   *)
(* the permission bits save gives it, or those of a file put there by      *)
(* other means (0600).                                                     *)
(***************************************************************************)
BaseDirMode == 493
OrphanType == <<"master">>
OrphanName == <<"node1">>
OrphanPriv == <<75, 1>>
OrphanPath == KeyPath(PkiDir, OrphanType, OrphanName, TRUE)
OrphanModes == {PrivMode, 256 + 128}

InitCrypt(o) == IF EncryptionEnabled(o) THEN o.keystore_secret ELSE NoSecret

Init ==
    /\ opts \in OptsSet
    /\ self = [state |-> "unconstructed", crypt |-> NoSecret, base_dir |-> <<>>]
    /\ umask \in InitUmasks
    /\ euid0 \in BOOLEAN
    /\ \E orphan \in BOOLEAN, orphan_mode \in OrphanModes :
        /\ orphan \/ orphan_mode = PrivMode
        /\ files = [p \in FilePaths |->
                      IF orphan /\ p = OrphanPath
                      THEN [exists |-> TRUE,
                            content |-> PrivKeyToStore(InitCrypt(opts), OrphanPriv),
                            mode |-> orphan_mode]
                      ELSE NoFile]
        /\ dirs = [p \in DirPaths |->
                      IF p = PkiDir \/ (orphan /\ p = TypeDir(PkiDir, OrphanType))
                      THEN BaseDirMode ELSE NoDir]
    /\ last = NoCall
    /\ callers = [c \in Callers |-> IdleCaller]

(***************************************************************************)
(* Actions: one per call.                                                  *)
(***************************************************************************)
Construct ==
    /\ self.state = "unconstructed"
    /\ \E c \in {__init__(opts)} :
           /\ self' = c.self
           /\ last' = [NoCall EXCEPT !.op = "__init__",
                                     !.umask_before = umask,
                                     !.initialize_called = c.initialize_called,
                                     !.result = c.result]
    /\ UNCHANGED <<opts, files, dirs, umask, euid0, callers>>

Save(key_type, key_name, pub_key, priv_key, fault) ==
    /\ self.state = "ready"
    /\ \E r \in {save(self, files, dirs, umask, euid0, key_type, key_name,
                     pub_key, priv_key, fault)} :
           /\ fault = "none" \/ r.faulted
           /\ files' = r.files
           /\ dirs' = r.dirs
           /\ umask' = r.umask
           /\ last' = [Call("save", key_type, key_name) EXCEPT
                          !.pub_key = pub_key, !.priv_key = priv_key,
                          !.fault = fault, !.result = r.result]
    /\ UNCHANGED <<opts, self, euid0, callers>>

Get(key_type, key_name, decrypt_priv) ==
    /\ self.state = "ready"
    /\ \E r \in {get(self, files, dirs, umask, euid0, key_type, key_name,
                    decrypt_priv)} :
           /\ dirs' = r.dirs
           /\ last' = [Call("get", key_type, key_name) EXCEPT
                          !.decrypt_priv = decrypt_priv, !.result = r.result,
                          !.ret_pub = r.ret_pub, !.ret_priv = r.ret_priv]
    /\ UNCHANGED <<opts, self, files, umask, euid0, callers>>

Remove(key_type, key_name) ==
    /\ self.state = "ready"
    /\ \E r \in {remove(self, files, dirs, umask, euid0, key_type, key_name)} :
           /\ files' = r.files
           /\ dirs' = r.dirs
           /\ last' = [Call("remove", key_type, key_name) EXCEPT
                          !.result = r.result]
    /\ UNCHANGED <<opts, self, umask, euid0, callers>>

SaveCall ==
    \E k \in Keys, pub_key \in PubKeys, priv_key \in PrivKeys, fault \in Faults :
        Save(k[1], k[2], pub_key, priv_key, fault)

GetCall ==
    \E k \in Keys, decrypt_priv \in BOOLEAN : Get(k[1], k[2], decrypt_priv)

RemoveCall ==
    \E k \in Keys : Remove(k[1], k[2])

Next == Construct \/ SaveCall \/ GetCall \/ RemoveCall

Spec == Init /\ [][Next]_vars

(***************************************************************************)
(* Two callers inside save at the same time, on a constructed backend and  *)
(* an empty store.  One action per statement of save that reads or changes *)
(* shared state; nothing in save orders the callers.                       *)
(***************************************************************************)
InitConc ==
    /\ opts \in {o \in OptsSet : __init__(o).result = "ok"}
    /\ self = __init__(opts).self
    /\ umask \in InitUmasks
    /\ euid0 \in BOOLEAN
    /\ files = [p \in FilePaths |-> NoFile]
    /\ dirs = [p \in DirPaths |-> IF p = PkiDir THEN BaseDirMode ELSE NoDir]
    /\ last = NoCall
    /\ callers = [c \in Callers |-> IdleCaller]

Raise(c, err) == [callers EXCEPT ![c].pc = "done", ![c].result = err]
Goto(c, pc) == [callers EXCEPT ![c].pc = pc]

\* lines 40-46: the material to store and the two paths
Enter(c, key_type, key_name, priv_key) ==
    /\ callers[c].pc = "idle"
    /\ \E p1 \in {_get_key_path(files, dirs, self.base_dir, key_type,
                                 key_name, FALSE, umask, euid0)} :
       \E p2 \in {_get_key_path(files, p1.dirs, self.base_dir, key_type,
                                 key_name, TRUE, umask, euid0)} :
           /\ dirs' = p2.dirs
           /\ callers' =
                 [callers EXCEPT ![c] =
                    [IdleCaller EXCEPT
                       !.key_type = key_type, !.key_name = key_name,
                       !.pub_key = CallerPub(c), !.priv_key = priv_key,
                       !.priv_key_to_store = PrivKeyToStore(self.crypt, priv_key),
                       !.pub_key_path = p1.path, !.priv_key_path = p2.path,
                       !.pc = IF p1.err = "none" /\ p2.err = "none"
                              THEN "check" ELSE "done",
                       !.result = IF p1.err # "none" THEN p1.err
                                  ELSE IF p2.err # "none" THEN p2.err
                                  ELSE "none"]]
    /\ UNCHANGED <<opts, self, files, umask, euid0, last>>

EnterCall(c) ==
    \E k \in Keys, priv_key \in CallerPrivs(c) : Enter(c, k[1], k[2], priv_key)

\* lines 47-50: the existence checks
Check(c) ==
    /\ callers[c].pc = "check"
    /\ callers' =
          IF SaveKeyExists(files, callers[c].pub_key_path,
                           callers[c].priv_key_path, callers[c].priv_key)
          THEN Raise(c, "KeyExists")
          ELSE [callers EXCEPT ![c].pc = "umask", ![c].passed = TRUE]
    /\ UNCHANGED <<opts, self, files, dirs, umask, euid0, last>>

\* line 51
SetUmask(c) ==
    /\ callers[c].pc = "umask"
    /\ umask' = SaveUmask
    /\ callers' = Goto(c, "pub")
    /\ UNCHANGED <<opts, self, files, dirs, euid0, last>>

\* lines 52-53
WritePub(c) ==
    /\ callers[c].pc = "pub"
    /\ \E w \in {WriteFile(files, dirs, callers[c].pub_key_path,
                            callers[c].pub_key, umask, euid0, FALSE)} :
           /\ files' = w.files
           /\ callers' =
                 IF w.err # "none" THEN Raise(c, w.err)
                 ELSE [callers EXCEPT
                         ![c].pc = "priv",
                         ![c].raced = callers[Other(c)].passed]
    /\ UNCHANGED <<opts, self, dirs, umask, euid0, last>>

\* lines 54-56
WritePriv(c) ==
    /\ callers[c].pc = "priv"
    /\ \E w \in {IF Truthy(callers[c].priv_key_to_store)
                  THEN WriteFile(files, dirs, callers[c].priv_key_path,
                                 callers[c].priv_key_to_store, umask, euid0,
                                 FALSE)
                  ELSE [files |-> files, err |-> "none"]} :
           /\ files' = w.files
           /\ callers' = IF w.err # "none" THEN Raise(c, w.err)
                         ELSE Goto(c, "chmod")
    /\ UNCHANGED <<opts, self, dirs, umask, euid0, last>>

\* line 57, and the return
Chmod(c) ==
    /\ callers[c].pc = "chmod"
    /\ \E m \in {os_chmod(files, callers[c].priv_key_path, PrivMode)} :
           /\ files' = m.files
           /\ callers' = IF m.err # "none" THEN Raise(c, m.err)
                         ELSE Raise(c, "ok")
    /\ UNCHANGED <<opts, self, dirs, umask, euid0, last>>

NextConc ==
    \E c \in Callers :
        \/ EnterCall(c)
        \/ Check(c)
        \/ SetUmask(c)
        \/ WritePub(c)
        \/ WritePriv(c)
        \/ Chmod(c)

SpecConc == InitConc /\ [][NextConc]_vars

(***************************************************************************)
(* Properties.  `last` is the call that has just run; in an action formula *)
(* the unprimed variables are the state a call starts in and last' is the  *)
(* record of that call.                                                    *)
(***************************************************************************)
PubPathOf(l) == KeyPath(self.base_dir, l.key_type, l.key_name, FALSE)
PrivPathOf(l) == KeyPath(self.base_dir, l.key_type, l.key_name, TRUE)
SameKey(a, b) == a.key_type = b.key_type /\ a.key_name = b.key_name

\* C1: a save with private material on a key without artifacts that returns
\* normally, followed by get with decrypt_priv = True on the same key, makes
\* get return exactly the public and private material given to save, with
\* encryption enabled and disabled.
C1_SaveGetRoundTrip ==
    [][(/\ last.op = "save" /\ last.result = "ok"
        /\ last.priv_key # None
        /\ ~last.had_pub /\ ~last.had_priv
        /\ last'.op = "get" /\ SameKey(last, last')
        /\ last'.decrypt_priv)
       => (/\ last'.result = "ok"
           /\ last'.ret_pub = last.pub_key
           /\ last'.ret_priv = last.priv_key)]_vars

\* a get that follows a successful save of the same key returned a private
\* key that is stored encrypted
C1_Witness ==
    /\ last.op = "get" /\ last.follows = "save" /\ last.decrypt_priv
    /\ last.result = "ok" /\ Truthy(last.ret_priv)
    /\ self.crypt # NoSecret
    /\ files[PrivPathOf(last)].content # last.ret_priv

\* C2: a save of a key whose previous save returned normally raises
\* KeyExists and leaves every artifact (content and permission bits) as it
\* was, whatever material it supplies.
C2_SecondSaveKeyExists ==
    [][(/\ last.op = "save" /\ last.result = "ok"
        /\ last'.op = "save" /\ SameKey(last, last'))
       => (last'.result = "KeyExists" /\ files' = files)]_vars

\* the second save supplied other private material than the first one
C2_Witness ==
    /\ last.op = "save" /\ last.follows = "save"
    /\ last.result = "KeyExists"
    /\ files[PrivPathOf(last)].exists
    /\ files[PrivPathOf(last)].content
         # PrivKeyToStore(self.crypt, last.priv_key)

\* C3: a save without private material on a key without artifacts, with no
\* write failing and the key_type directory writable, raises no error.
C3_SaveWithoutPrivateSucceeds ==
    (/\ last.op = "save" /\ last.priv_key = None
     /\ ~last.had_pub /\ ~last.had_priv
     /\ last.fault = "none" /\ last.may_write)
    => last.result = "ok"

\* C4: get raises KeyNotFound exactly when the public artifact
\* does not exist, and whenever the public artifact exists get returns its
\* content.
C4_GetReturnsWheneverPublicExists ==
    last.op = "get" =>
        /\ (last.result = "KeyNotFound") <=> ~last.had_pub
        /\ last.had_pub =>
              /\ last.result = "ok"
              /\ last.ret_pub = files[PubPathOf(last)].content

\* C5: remove raises no error in any state, afterwards neither artifact of
\* the key exists, a get that follows raises KeyNotFound and a second remove
\* changes nothing.
C5_RemoveTotalIdempotent ==
    [][/\ last'.op = "remove" =>
            /\ last'.result = "ok"
            /\ ~os_path_isfile(files', PubPathOf(last'))
            /\ ~os_path_isfile(files', PrivPathOf(last'))
       /\ (last.op = "remove" /\ SameKey(last, last') /\ last'.op = "get")
            => last'.result = "KeyNotFound"
       /\ (last.op = "remove" /\ SameKey(last, last') /\ last'.op = "remove")
            => (files' = files /\ dirs' = dirs /\ umask' = umask)]_vars

\* C6: after a save that was given a private key and returned normally the
\* private artifact has exactly the permission bits 0400, whatever the mask
\* before the call.
C6_PrivateOwnerReadOnly ==
    (last.op = "save" /\ last.priv_key # None /\ last.result = "ok")
    => /\ files[PrivPathOf(last)].exists
       /\ files[PrivPathOf(last)].mode = 256

\* a save with a private key that ran under the mask an earlier save left
C6_Witness ==
    /\ last.op = "save" /\ Truthy(last.priv_key) /\ last.result = "ok"
    /\ last.umask_before = SaveUmask
    /\ files[PrivPathOf(last)].mode = 256

\* C7: a save of a key that has its public or its private artifact raises
\* KeyExists, also when only the private artifact exists and no private
\* material is given.
C7_SaveFailsIfEitherExists ==
    (last.op = "save" /\ (last.had_pub \/ last.had_priv))
    => last.result = "KeyExists"

\* C8: after every save, however it ends, the umask of the process is the
\* one in force before the call.
C8_UmaskRestored ==
    last.op = "save" => umask = last.umask_before

\* C9: get with decrypt_priv = False returns the private artifact as it is
\* stored.
C9_GetRawPrivate ==
    (/\ last.op = "get" /\ last.result = "ok"
     /\ ~last.decrypt_priv /\ last.had_priv)
    => last.ret_priv = files[PrivPathOf(last)].content

\* C10: with encrypt_private_keys true and no keystore_secret the
\* constructor raises KeyManagerConfigError before initialize() is called
\* and produces no instance; with encrypt_private_keys false or unset
\* crypt is None and initialize() is called.
C10_ConstructorConfig ==
    last.op = "__init__" =>
        /\ (opts.encrypt_private_keys = "true" /\ opts.keystore_secret = NoSecret)
              => /\ last.result = "KeyManagerConfigError"
                 /\ ~last.initialize_called
                 /\ self.state = "failed"
        /\ opts.encrypt_private_keys \in {"false", "unset"}
              => /\ self.crypt = NoSecret
                 /\ last.initialize_called
                 /\ last.result # "KeyManagerConfigError"

\* construction with encryption enabled and no secret
C10_Witness ==
    /\ last.op = "__init__"
    /\ opts.encrypt_private_keys = "true" /\ opts.keystore_secret = NoSecret
    /\ last.result = "KeyManagerConfigError"
    /\ self.state = "failed"

\* C11: the shared wrapper is a round trip in every configuration: with an
\* adapter configured _decrypt_priv_key(_encrypt_priv_key(x)) returns x for
\* every byte string x, and without one _encrypt_priv_key(x) and
\* _decrypt_priv_key(x) each return x.
C11_WrapperRoundTrip ==
    self.state = "ready" =>
        \A x \in ByteStrings \cup (PrivKeys \ {None}) :
            LET e == _encrypt_priv_key(self.crypt, x)
                d == _decrypt_priv_key(self.crypt, e)
            IN  /\ d.err = "none" /\ d.data = x
                /\ self.crypt = NoSecret =>
                      /\ e = x
                      /\ _decrypt_priv_key(self.crypt, x).data = x
                      /\ _decrypt_priv_key(self.crypt, x).err = "none"

\* a backend with an adapter holds a private artifact that save wrote
\* through the wrapper: its content is not the material, and the wrapper
\* gives the material back
C11_Witness ==
    /\ self.state = "ready" /\ self.crypt # NoSecret
    /\ last.op = "save" /\ last.result = "ok" /\ Truthy(last.priv_key)
    /\ files[PrivPathOf(last)].content
          = _encrypt_priv_key(self.crypt, last.priv_key)
    /\ files[PrivPathOf(last)].content # last.priv_key
    /\ _decrypt_priv_key(self.crypt, files[PrivPathOf(last)].content).data
          = last.priv_key

\* C12: the existence checks of save come before every write: save raises
\* KeyExists exactly when the public artifact exists, or private material
\* is given and the private artifact exists, and a save that raises
\* KeyExists leaves every artifact file of every key as it was (existence,
\* content and permission bits).
C12_KeyExistsBeforeWrites ==
    [][last'.op = "save" =>
         /\ (last'.result = "KeyExists")
               <=> (\/ last'.had_pub
                    \/ (Truthy(last'.priv_key) /\ last'.had_priv))
         /\ last'.result = "KeyExists" => files' = files]_vars

\* a save with private material on a key that has only its private
\* artifact: the second check raised and the artifact is as it was
C12_Witness ==
    /\ last.op = "save" /\ last.result = "KeyExists"
    /\ ~last.had_pub /\ last.had_priv /\ Truthy(last.priv_key)
    /\ ~os_path_isfile(files, PubPathOf(last))
    /\ files[PrivPathOf(last)].exists
    /\ files[PrivPathOf(last)].mode = 256 + 128

\* C13: private material is encrypted at rest.  Every private artifact a
\* save creates or rewrites holds _encrypt_priv_key of the private key given
\* to that save (nothing of it when the write failed): with an adapter that
\* is never the key itself, without one it is the key unchanged.  Every
\* public artifact a save creates or rewrites holds the public key given.
C13_EncryptedAtRest ==
    [][last'.op = "save" =>
         \A p \in FilePaths :
            (/\ files'[p].exists
             /\ ~files[p].exists \/ files'[p].content # files[p].content)
            => \/ /\ p = PubPathOf(last')
                  /\ files'[p].content =
                        IF last'.fault = "pub_write" THEN <<>>
                        ELSE last'.pub_key
               \/ /\ p = PrivPathOf(last')
                  /\ Truthy(last'.priv_key)
                  /\ files'[p].content =
                        IF last'.fault = "priv_write" THEN <<>>
                        ELSE _encrypt_priv_key(self.crypt, last'.priv_key)
                  /\ self.crypt # NoSecret =>
                        files'[p].content # last'.priv_key
                  /\ (self.crypt = NoSecret /\ last'.fault # "priv_write") =>
                        files'[p].content = last'.priv_key]_vars

\* a save that returned normally with an adapter configured: the private
\* artifact it created holds the ciphertext, the public one the public key
C13_Witness ==
    /\ last.op = "save" /\ last.result = "ok" /\ ~last.had_priv
    /\ self.crypt # NoSecret
    /\ files[PrivPathOf(last)].content
          = CrypticleEncrypt(self.crypt, last.priv_key)
    /\ files[PubPathOf(last)].content = last.pub_key
    /\ files[PrivPathOf(last)].mode = PrivMode

\* C14: a save without private material leaves the private artifact of its
\* key as it was: same existence, content and permission bits.
C14_NoPrivateUntouched ==
    [][(last'.op = "save" /\ last'.priv_key = None)
       => files'[PrivPathOf(last')] = files[PrivPathOf(last')]]_vars

\* C15: save is a check-then-write that is not atomic.  Two callers of save
\* on the same key can both return normally; whenever they do, each wrote
\* the public artifact when the other was already past its existence
\* checks, the process is the superuser (otherwise the second open of the
\* 0400 artifact fails), and the stored pair holds the public key of one
\* caller and the stored form of the private key of one caller.
C15_BothSavesOnlyByRace ==
    \A c \in Callers :
        LET o == callers[Other(c)]
            m == callers[c]
        IN  (/\ m.result = "ok" /\ o.result = "ok"
             /\ m.pub_key_path = o.pub_key_path)
            => /\ m.raced /\ o.raced
               /\ euid0
               /\ files[m.pub_key_path].content \in {m.pub_key, o.pub_key}
               /\ files[m.priv_key_path].content
                     \in {m.priv_key_to_store, o.priv_key_to_store}
               /\ files[m.priv_key_path].mode = PrivMode

\* both callers saved the same key with private material and returned
\* normally; the store holds the public key of caller 1 and the private key
\* of caller 2
C15_Witness ==
    /\ callers[1].result = "ok" /\ callers[2].result = "ok"
    /\ callers[1].key_type = callers[2].key_type
    /\ callers[1].key_name = callers[2].key_name
    /\ Truthy(callers[1].priv_key) /\ Truthy(callers[2].priv_key)
    /\ files[callers[1].pub_key_path].content = callers[1].pub_key
    /\ files[callers[1].priv_key_path].content = callers[2].priv_key_to_store

\* C16: save does not roll back.  When the private artifact cannot be
\* opened or written after the public artifact was written, save raises and
\* the public artifact stays stored with the public key given.  A save of
\* the same key that follows raises KeyExists and changes no file; a remove
\* that follows deletes both artifacts.  A get that follows does not raise
\* KeyNotFound: it returns the public key with an absent private key when
\* the private artifact was not created, and when the failed write left an
\* empty private artifact it returns the public key with an empty private
\* key (no adapter) or raises the adapter's error.
C16_NoRollback ==
    [][(last.op = "save" /\ PrivFault(last)) =>
         /\ last.result = "IOError"
         /\ os_path_isfile(files, PubPathOf(last))
         /\ files[PubPathOf(last)].content = last.pub_key
         /\ os_path_isfile(files, PrivPathOf(last)) <=> last.fault = "priv_write"
         /\ (last'.op = "save" /\ SameKey(last, last'))
               => (last'.result = "KeyExists" /\ files' = files)
         /\ (last'.op = "remove" /\ SameKey(last, last'))
               => /\ last'.result = "ok"
                  /\ ~os_path_isfile(files', PubPathOf(last))
                  /\ ~os_path_isfile(files', PrivPathOf(last))
         /\ (last'.op = "get" /\ SameKey(last, last'))
               => /\ last'.result # "KeyNotFound"
                  /\ last'.result = "ok" => last'.ret_pub = last.pub_key
                  /\ last.fault = "priv_open"
                        => (last'.result = "ok" /\ last'.ret_priv = None)
                  /\ (last.fault = "priv_write" /\ self.crypt = NoSecret)
                        => (last'.result = "ok" /\ last'.ret_priv = <<>>)
                  /\ (last.fault = "priv_write" /\ self.crypt # NoSecret)
                        => last'.result = "AuthenticationError"]_vars

\* C16 as stated: after a save whose private write failed, get of that key
\* returns the public key and an absent private key.
C16_GetReturnsPubAbsent ==
    [][(/\ last.op = "save" /\ PrivFault(last)
        /\ last'.op = "get" /\ SameKey(last, last'))
       => (/\ last'.result = "ok"
           /\ last'.ret_pub = last.pub_key
           /\ last'.ret_priv = None)]_vars

\* a get right after a save whose private write failed: the public
\* artifact is there and an empty private key comes back with it
C16_Witness ==
    /\ last.op = "get" /\ last.follows = "priv_fault"
    /\ last.result = "ok" /\ last.had_pub /\ last.had_priv
    /\ last.ret_priv = <<>>
    /\ files[PubPathOf(last)].content = last.ret_pub

\* C17: constructing the backend from a configuration without pki_dir fails
\* with KeyManagerConfigError, the error raised for a missing
\* keystore_secret, and produces no instance.
C17_MissingPkiDirConfigError ==
    (last.op = "__init__" /\ opts.pki_dir = <<>>)
    => (last.result = "KeyManagerConfigError" /\ self.state = "failed")

\* C18: after every call of save, get or remove the directory
\* {pki_dir}/{key_type} of the call exists.
C18_TypeDirExistsAfterCall ==
    last.op \in {"save", "get", "remove"}
    => IsDir(dirs, TypeDir(self.base_dir, last.key_type))

\* C19: save does not depend on what ran before: a save with private
\* material of a key that has no artifact, with no write failing, returns
\* normally (for a key_name that names a file of the key_type directory).
C19_SaveOfFreshKeySucceeds ==
    (/\ last.op = "save" /\ Truthy(last.priv_key)
     /\ ~last.had_pub /\ ~last.had_priv
     /\ last.fault = "none" /\ Len(last.key_name) = 1)
    => last.result = "ok"

\* C20: a call on (key_type, key_name) leaves the artifacts of every other
\* pair (key_type, key_name) as they were.
C20_KeyIsolation ==
    [][last'.op \in {"save", "get", "remove"} =>
         \A k \in Keys :
            (k[1] # last'.key_type \/ k[2] # last'.key_name)
            => \A private \in BOOLEAN :
                  files'[KeyPath(self.base_dir, k[1], k[2], private)]
                    = files[KeyPath(self.base_dir, k[1], k[2], private)]]_vars

====
